---- MODULE Spec2Model ----
(***************************************************************************)
(* The client-side analysis workflow of tennis-swing-analysis-v2:          *)
(* UploadPage (the submission workflow), the axios client analyzeSwing,    *)
(* the router hand-off through location.state, and ResultPage.             *)
(*                                                                         *)
(* One UploadPage instance is mounted while the current history entry's    *)
(* path is "/"; its useState cells are file, hand, isLoading and error.    *)
(* A request in flight remembers the file and hand its handleSubmit        *)
(* closure captured and whether the instance that issued it is still       *)
(* mounted (live).  The browser's session history is a bounded stack of    *)
(* entries (path, state); navigate() pushes, Back/Forward move the index.  *)
(***************************************************************************)
EXTENDS Integers, Sequences, FiniteSets, TLC

VARIABLES
  file,        \* UploadPage: useState<File | null>
  hand,        \* UploadPage: useState<Hand>
  isLoading,   \* UploadPage: useState(false)
  error,       \* UploadPage: useState<string | null>
  inflight,    \* pending api.post calls, one record per call
  issued,      \* number of api.post calls made so far
  hist,        \* session history: sequence of [path, state]
  idx,         \* index of the current history entry
  blobs,       \* object URLs created and not revoked
  view,        \* what the routed page rendered last
  unhandled,   \* a rejection escaped handleSubmit
  probe,       \* the healthCheck call, if one was made
  lastOp       \* the last operation and its input (history variable)

vars == <<file, hand, isLoading, error, inflight, issued, hist, idx, blobs,
          view, unhandled, probe, lastOp>>

upload == <<file, hand, isLoading, error>>

-----------------------------------------------------------------------------
(* Bounds *)

MaxReq  == 2      \* api.post calls per behaviour
MaxHist == 2      \* session history entries kept (oldest dropped)

(* Program constants *)

TimeoutMs == 300000

-----------------------------------------------------------------------------
(* Values *)

Null   == "<null>"        \* JavaScript null (file, error)
Absent == "<undefined>"   \* a property that is absent, undefined or null

Files == {"f1.mp4", "f2.mp4"}
Hands == {"right", "left"}

Fallback == "Something went wrong. Please try again."

RequiredFields ==
  {"most_similar_player", "similarities", "coaching", "phases",
   "landmarks", "reference_video_url"}

\* Response bodies a 2xx answer may carry.  axios hands over whatever JSON
\* arrived; TypeScript's AnalysisResponse type is erased at run time.
NullBody == [kind |-> "null", fields |-> {}, player |-> Absent]
FullBody(p) == [kind |-> "object", fields |-> RequiredFields, player |-> p]
PartBody(p) ==
  [kind |-> "object", fields |-> RequiredFields \ {"coaching"}, player |-> p]

Bodies ==
  {NullBody, FullBody("Federer"), PartBody("Federer")}

StructurallyValid(b) == b.kind = "object" /\ RequiredFields \subseteq b.fields

\* JavaScript truthiness of the values the pages test.
TruthyBody(b) == b.kind # "null"
TruthyStr(s) == s # Null /\ s # ""

\* What api.post rejects with: always an AxiosError (an Error).  response is
\* set only when the server answered with a non-2xx status.
AxiosError(msg, resp, d) ==
  [isError |-> TRUE, message |-> msg, hasResponse |-> resp, detail |-> d]

NetworkErr == AxiosError("Network Error", FALSE, Absent)
TimeoutErr == AxiosError("timeout of 300000ms exceeded", FALSE, Absent)
StatusErr(d) == AxiosError("Request failed with status code 500", TRUE, d)

Details == {"video too short", ""}

ServerErrors == {NetworkErr} \cup {StatusErr(d) : d \in Details \cup {Absent}}

\* A healthCheck call: its state and the timeout of its request config.
NoProbe == [status |-> "none", timeout |-> 0]

NullState == [kind |-> "null"]
Payload(b, u) == [kind |-> "payload", result |-> b, userVideoUrl |-> u]

Entry(p, s) == [path |-> p, state |-> s]

NoOp == [op |-> "init", live |-> FALSE, id |-> 0, file |-> Null,
         body |-> NullBody, err |-> NetworkErr]
ResolveOp(r, b) == [NoOp EXCEPT !.op = "resolve", !.live = r.live,
                                !.id = r.id, !.file = r.file, !.body = b]
RejectOp(r, e) == [NoOp EXCEPT !.op = "reject", !.live = r.live, !.err = e]
UserOp(o) == [NoOp EXCEPT !.op = o]

-----------------------------------------------------------------------------
(* Derived state *)

path == hist[idx].path
locationState == hist[idx].state

Mounted == path = "/"

\* ResultPage reading location.state without the guard: destructuring
\* null throws.
ResultPage_NoGuard(st) ==
  IF st = NullState THEN "crash" ELSE "results"

\* ResultPage's render.
ResultPage(st) ==
  IF st = NullState \/ ~TruthyBody(st.result) THEN "fallback" ELSE "results"

\* UploadPage's render.
UploadPage(loading) == IF loading THEN "loading" ELSE "upload"

\* App's routes.
App(p, st, loading) ==
  IF p = "/" THEN UploadPage(loading) ELSE ResultPage(st)

\* The catch block without the response.data.detail branch.
ExtractMessage_IgnoresDetail(err) ==
  IF err.isError THEN err.message ELSE Fallback

\* The catch block without the instanceof Error branch.
ExtractMessage_NoErrorBranch(err) ==
  IF err.hasResponse /\ err.detail # Absent THEN err.detail ELSE Fallback

\* catch (err: unknown) takes every thrown value.
Caught(err) == TRUE

\* The message handleSubmit's catch block stores.
ExtractMessage(err) ==
  LET m1 == IF err.isError THEN err.message ELSE Fallback
  IN  IF err.hasResponse /\ err.detail # Absent THEN err.detail ELSE m1

\* history.push: entries after the current one are dropped, the new entry
\* is appended, and the oldest entry goes when the stack is full.
PushEntry(e) ==
  LET cut == Append(SubSeq(hist, 1, idx), e)
  IN  IF Len(cut) > MaxHist THEN Tail(cut) ELSE cut

Detach(S) == {[r EXCEPT !.live = FALSE] : r \in S}

\* The effect of a route change on the UploadPage instance: it stays
\* mounted only when both entries route to "/"; otherwise the old instance
\* (if any) is unmounted, its pending handlers become stale, and a fresh
\* instance with initial state is mounted when the new path is "/".
RouteChange(oldPath, newPath, pending) ==
  IF oldPath = "/" /\ newPath = "/"
  THEN /\ UNCHANGED upload
       /\ inflight' = pending
  ELSE /\ file' = Null
       /\ hand' = "right"
       /\ isLoading' = FALSE
       /\ error' = Null
       /\ inflight' = Detach(pending)

\* navigate(to, {state}).
navigate(to, st, pending) ==
  /\ hist' = PushEntry(Entry(to, st))
  /\ idx' = Len(hist')
  /\ RouteChange(path, to, pending)
  /\ view' = App(to, st, isLoading')

-----------------------------------------------------------------------------
Init ==
  /\ file = Null
  /\ hand = "right"
  /\ isLoading = FALSE
  /\ error = Null
  /\ inflight = {}
  /\ issued = 0
  /\ \E p \in {"/", "/results"} : hist = <<Entry(p, NullState)>>
  /\ idx = 1
  /\ blobs = {}
  /\ view = App(path, locationState, FALSE)
  /\ unhandled = FALSE
  /\ probe = NoProbe
  /\ lastOp = NoOp

-----------------------------------------------------------------------------
(* UploadPage: user events.  The uploader, the options and the error       *)
(* banner exist only in the non-loading render.                            *)

\* onFileChange that also clears the error.
setFile_ClearsError(f) ==
  /\ view = "upload"
  /\ file' = f
  /\ error' = Null
  /\ lastOp' = UserOp("select")
  /\ UNCHANGED <<hand, isLoading, inflight, issued, hist, idx, blobs, view,
                 unhandled, probe>>

setFile(f) ==
  /\ view = "upload"
  /\ file' = f
  /\ lastOp' = UserOp("select")
  /\ UNCHANGED <<hand, isLoading, error, inflight, issued, hist, idx, blobs,
                 view, unhandled, probe>>

setHand(h) ==
  /\ view = "upload"
  /\ hand' = h
  /\ lastOp' = UserOp("select")
  /\ UNCHANGED <<file, isLoading, error, inflight, issued, hist, idx, blobs,
                 view, unhandled, probe>>

\* The submit control with UploadPage's loading render removed.
SubmitRendered_NoLoadingGate == Mounted

\* The submit control hidden while an error is stored.
SubmitRendered_HiddenOnError == view = "upload" /\ error = Null

\* Whether the submit control is on screen.
SubmitRendered == view = "upload"

\* api.post with no timeout option.
analyzeSwing_NoTimeout(i, f, h) ==
  [id |-> i, file |-> f, hand |-> h, live |-> TRUE, timeout |-> 0]

\* analyzeSwing's api.post call: the form data and the request config.
analyzeSwing(i, f, h) ==
  [id |-> i, file |-> f, hand |-> h, live |-> TRUE, timeout |-> TimeoutMs]

\* The history variable tells a first submission from one made while an
\* error is stored.
SubmitOp == UserOp(IF error = Null THEN "submit" ELSE "resubmit")

\* handleSubmit without its `if (!file) return`.
handleSubmit_NoFileGuard ==
  /\ issued < MaxReq
  /\ issued' = issued + 1
  /\ isLoading' = TRUE
  /\ error' = Null
  /\ inflight' = inflight \cup {analyzeSwing(issued + 1, file, hand)}
  /\ view' = App(path, locationState, isLoading')
  /\ lastOp' = SubmitOp
  /\ UNCHANGED <<file, hand, hist, idx, blobs, unhandled, probe>>

\* handleSubmit creating the object URL before the request is made.
handleSubmit_EagerUrl ==
  IF file = Null
  THEN /\ lastOp' = UserOp("submitNoFile")
       /\ UNCHANGED <<file, hand, isLoading, error, inflight, issued, hist,
                      idx, blobs, view, unhandled, probe>>
  ELSE /\ issued < MaxReq
       /\ issued' = issued + 1
       /\ isLoading' = TRUE
       /\ error' = Null
       /\ inflight' = inflight \cup {analyzeSwing(issued + 1, file, hand)}
       /\ blobs' = blobs \cup {[id |-> issued + 1, file |-> file]}
       /\ view' = App(path, locationState, isLoading')
       /\ lastOp' = SubmitOp
       /\ UNCHANGED <<file, hand, hist, idx, unhandled, probe>>

\* handleSubmit without its setError(null).
handleSubmit_KeepsError ==
  IF file = Null
  THEN /\ lastOp' = UserOp("submitNoFile")
       /\ UNCHANGED <<file, hand, isLoading, error, inflight, issued, hist,
                      idx, blobs, view, unhandled, probe>>
  ELSE /\ issued < MaxReq
       /\ issued' = issued + 1
       /\ isLoading' = TRUE
       /\ inflight' = inflight \cup {analyzeSwing(issued + 1, file, hand)}
       /\ view' = App(path, locationState, isLoading')
       /\ lastOp' = SubmitOp
       /\ UNCHANGED <<file, hand, error, hist, idx, blobs, unhandled, probe>>

\* handleSubmit up to its await.
handleSubmit ==
  IF file = Null
  THEN /\ lastOp' = UserOp("submitNoFile")
       /\ UNCHANGED <<file, hand, isLoading, error, inflight, issued, hist,
                      idx, blobs, view, unhandled, probe>>
  ELSE /\ issued < MaxReq
       /\ issued' = issued + 1
       /\ isLoading' = TRUE
       /\ error' = Null
       /\ inflight' = inflight \cup {analyzeSwing(issued + 1, file, hand)}
       /\ view' = App(path, locationState, isLoading')
       /\ lastOp' = SubmitOp
       /\ UNCHANGED <<file, hand, hist, idx, blobs, unhandled, probe>>

Submit ==
  /\ SubmitRendered
  /\ handleSubmit

\* onRetry that also resets the form.
onRetry_ResetsFile ==
  /\ view = "upload"
  /\ TruthyStr(error)
  /\ error' = Null
  /\ file' = Null
  /\ lastOp' = UserOp("dismiss")
  /\ UNCHANGED <<hand, isLoading, inflight, issued, hist, idx, blobs, view,
                 unhandled, probe>>

\* ErrorMessage's onRetry.
onRetry ==
  /\ view = "upload"
  /\ TruthyStr(error)
  /\ error' = Null
  /\ lastOp' = UserOp("dismiss")
  /\ UNCHANGED <<file, hand, isLoading, inflight, issued, hist, idx, blobs,
                 view, unhandled, probe>>

-----------------------------------------------------------------------------
(* analyzeSwing settles and handleSubmit resumes after its await.          *)

\* analyzeSwing returning a property the body does not have.
responseData_WrongProperty(b) == NullBody

\* analyzeSwing on a 2xx answer: what it resolves with (response.data).
responseData(b) == b

\* The object URL handleSubmit creates from its captured file.
createObjectURL(r) == [id |-> r.id, file |-> r.file]

\* try branch: createObjectURL, navigate; then finally.
Resolve(r, b) ==
  /\ r \in inflight
  /\ blobs' = blobs \cup {createObjectURL(r)}
  /\ navigate("/results", Payload(responseData(b), createObjectURL(r)),
              inflight \ {r})
  /\ lastOp' = ResolveOp(r, b)
  /\ UNCHANGED <<issued, unhandled, probe>>

\* A catch branch that sends the request again.
Catch_Retries(r, e) ==
  /\ inflight' = inflight
  /\ IF r.live
     THEN /\ error' = ExtractMessage(e)
          /\ isLoading' = TRUE
          /\ UNCHANGED <<file, hand>>
     ELSE UNCHANGED upload
  /\ view' = App(path, locationState, isLoading')
  /\ unhandled' = (unhandled \/ ~Caught(e))
  /\ UNCHANGED probe
  /\ lastOp' = RejectOp(r, e)
  /\ UNCHANGED <<issued, hist, idx, blobs>>

\* catch branch, then finally.  The setters of an unmounted instance do
\* nothing.
Catch(r, e) ==
  /\ inflight' = inflight \ {r}
  /\ IF r.live
     THEN /\ error' = ExtractMessage(e)
          /\ isLoading' = FALSE
          /\ UNCHANGED <<file, hand>>
     ELSE UNCHANGED upload
  /\ view' = App(path, locationState, isLoading')
  /\ unhandled' = (unhandled \/ ~Caught(e))
  /\ UNCHANGED probe
  /\ lastOp' = RejectOp(r, e)
  /\ UNCHANGED <<issued, hist, idx, blobs>>

Reject(r, e) ==
  /\ r \in inflight
  /\ Catch(r, e)

\* The pending healthCheck request, if any.
Probes == IF probe.status = "pending" THEN {probe} ELSE {}

\* The timer of a request whose config has a timeout fires: axios rejects
\* the call.
Timeout(r) ==
  /\ r \in inflight \cup Probes
  /\ r.timeout > 0
  /\ IF r \in inflight
     THEN Catch(r, TimeoutErr)
     ELSE /\ probe' = [probe EXCEPT !.status = "rejected"]
          /\ lastOp' = UserOp("healthTimeout")
          /\ UNCHANGED <<file, hand, isLoading, error, inflight, issued, hist,
                         idx, blobs, view, unhandled>>

-----------------------------------------------------------------------------
(* healthCheck.  No page calls it; HealthSpec adds a caller.               *)

\* axios's default timeout, which api (created with a baseURL only) keeps:
\* 0, no timeout.
DefaultTimeout == 0

\* healthCheck's api.get call: no request config.
healthCheck ==
  /\ probe.status # "pending"
  /\ probe' = [status |-> "pending", timeout |-> DefaultTimeout]
  /\ lastOp' = UserOp("healthCheck")
  /\ UNCHANGED <<file, hand, isLoading, error, inflight, issued, hist, idx,
                 blobs, view, unhandled>>

\* The server answers the probe (2xx: resolved) or the request fails
\* (network failure, non-2xx: rejected).
HealthSettle(st) ==
  /\ probe.status = "pending"
  /\ probe' = [probe EXCEPT !.status = st]
  /\ lastOp' = UserOp("healthSettle")
  /\ UNCHANGED <<file, hand, isLoading, error, inflight, issued, hist, idx,
                 blobs, view, unhandled>>

-----------------------------------------------------------------------------
(* ResultPage: both renders offer navigate("/").                           *)

UploadButtonRendered == view = "fallback"
BackButtonRendered == view = "results"

ClickUploadAVideo ==
  /\ UploadButtonRendered
  /\ navigate("/", NullState, inflight)
  /\ lastOp' = UserOp("uploadAVideo")
  /\ UNCHANGED <<issued, blobs, unhandled, probe>>

ClickAnalyzeAnother ==
  /\ BackButtonRendered
  /\ navigate("/", NullState, inflight)
  /\ lastOp' = UserOp("analyzeAnother")
  /\ UNCHANGED <<issued, blobs, unhandled, probe>>

-----------------------------------------------------------------------------
(* BrowserRouter: the browser's own navigation.                            *)

\* Back or forward by one entry (popstate).
Traverse(d) ==
  /\ idx + d \in 1..Len(hist)
  /\ idx' = idx + d
  /\ hist' = hist
  /\ RouteChange(path, hist[idx + d].path, inflight)
  /\ view' = App(hist[idx + d].path, hist[idx + d].state, isLoading')
  /\ lastOp' = UserOp("traverse")
  /\ UNCHANGED <<issued, blobs, unhandled, probe>>

\* Reload: the document is replaced.  Pending requests and their handlers
\* are gone, the document's object URLs are revoked, the history entry and
\* its state stay.
Reload ==
  /\ file' = Null
  /\ hand' = "right"
  /\ isLoading' = FALSE
  /\ error' = Null
  /\ inflight' = {}
  /\ blobs' = {}
  /\ view' = App(path, locationState, FALSE)
  /\ probe' = NoProbe
  /\ lastOp' = UserOp("reload")
  /\ UNCHANGED <<issued, hist, idx, unhandled>>

-----------------------------------------------------------------------------
Next ==
  \/ \E f \in Files \cup {Null} : setFile(f)
  \/ \E h \in Hands : setHand(h)
  \/ Submit
  \/ onRetry
  \/ \E r \in inflight, b \in Bodies : Resolve(r, b)
  \/ \E r \in inflight, e \in ServerErrors : Reject(r, e)
  \/ \E r \in inflight \cup Probes : Timeout(r)
  \/ ClickUploadAVideo
  \/ ClickAnalyzeAnother
  \/ \E d \in {-1, 1} : Traverse(d)
  \/ Reload

Spec == Init /\ [][Next]_vars

\* The browser's timer fires for every request that is still pending.
Fairness == \A i \in 1..MaxReq :
  WF_vars(\E r \in inflight : r.id = i /\ Timeout(r))

FairSpec == Spec /\ Fairness

\* The application together with a caller of healthCheck.
HealthNext ==
  \/ Next
  \/ healthCheck
  \/ \E st \in {"resolved", "rejected"} : HealthSettle(st)

HealthSpec == Init /\ [][HealthNext]_vars

TypeOK ==
  /\ file \in Files \cup {Null}
  /\ hand \in Hands
  /\ isLoading \in BOOLEAN
  /\ issued \in 0..MaxReq
  /\ idx \in 1..Len(hist)
  /\ Len(hist) <= MaxHist
  /\ view \in {"upload", "loading", "fallback", "results"}
  /\ unhandled \in BOOLEAN
  /\ probe.status \in {"none", "pending", "resolved", "rejected"}

-----------------------------------------------------------------------------
(* Properties *)

Live == {r \in inflight : r.live}
Settled(o) == lastOp.op = o
HasDetail(e) == e.hasResponse /\ e.detail # Absent

\* C1: one UploadPage instance never has two analyzeSwing requests in
\* flight, and while it is loading no step issues a request.
C1_SingleFlight ==
  /\ [](Cardinality(Live) <= 1)
  /\ [][isLoading => issued' = issued]_vars

\* C1 witness: a second submission was accepted while an earlier request,
\* of an instance since unmounted, is still pending.
C1_Witness ==
  /\ isLoading
  /\ Cardinality(Live) = 1
  /\ Cardinality(inflight) = 2

\* C2: the outcome of a request whose instance was unmounted changes
\* nothing: no navigation, no object URL, no page state.
C2_StaleOutcomeDiscarded ==
  [][(lastOp'.op \in {"resolve", "reject"} /\ ~lastOp'.live)
       => /\ hist' = hist
          /\ idx' = idx
          /\ blobs' = blobs
          /\ upload' = upload]_vars

\* C3: after a 2xx answer the current entry is /results and its state
\* holds the body as the server sent it and an object URL of the file the
\* request was submitted with.
C3_SuccessPayload ==
  Settled("resolve") =>
    /\ path = "/results"
    /\ locationState =
         Payload(lastOp.body, [id |-> lastOp.id, file |-> lastOp.file])
    /\ [id |-> lastOp.id, file |-> lastOp.file] \in blobs
    /\ view = IF TruthyBody(lastOp.body) THEN "results" ELSE "fallback"

\* C3 witness: a mounted instance's request got a complete body and the
\* result view shows it.
C3_Witness ==
  /\ Settled("resolve")
  /\ lastOp.live
  /\ lastOp.body = FullBody("Federer")
  /\ lastOp.file = "f2.mp4"
  /\ view = "results"

\* C4: a rejection whose response body has a detail leaves the mounted
\* instance not loading with exactly that detail as its error.
C4_DetailVerbatim ==
  (Settled("reject") /\ lastOp.live /\ HasDetail(lastOp.err)) =>
    /\ error = lastOp.err.detail
    /\ ~isLoading
    /\ view = "upload"

\* C4 witness: status 500 with detail "video too short".
C4_Witness ==
  /\ Settled("reject")
  /\ lastOp.live
  /\ lastOp.err = StatusErr("video too short")
  /\ error = "video too short"

C6_NonEmptyMessage ==
  (Settled("reject") /\ lastOp.live) => TruthyStr(error)

\* C7: analyzeSwing resolves only with a structurally valid body, so the
\* result view never renders a payload that lacks a required field.
C7_DecodeRejectsInvalid ==
  (path = "/results" /\ view = "results") =>
    StructurallyValid(locationState.result)

\* C8: dismissing the error clears it and changes nothing else.
C8_DismissFrame ==
  [][lastOp'.op = "dismiss"
       => /\ TruthyStr(error) /\ ~isLoading
          /\ error' = Null /\ ~isLoading'
          /\ file' = file /\ hand' = hand
          /\ inflight' = inflight /\ issued' = issued
          /\ hist' = hist /\ idx' = idx /\ blobs' = blobs
          /\ view' = "upload"]_vars

\* C8 witness: an error was dismissed with a file and a hand selected.
C8_Witness ==
  /\ Settled("dismiss")
  /\ file = "f1.mp4"
  /\ hand = "left"
  /\ error = Null

\* C9: /results without a payload, or with a payload whose result is
\* missing, renders the fallback and offers the way back to upload.
C9_FallbackWithoutPayload ==
  (path = "/results"
     /\ (locationState = NullState \/ ~TruthyBody(locationState.result)))
    => /\ view = "fallback"
       /\ ENABLED ClickUploadAVideo

\* C9 witness: the back button replays a /results entry that has no state.
C9_Witness ==
  /\ Settled("traverse")
  /\ path = "/results"
  /\ locationState = NullState
  /\ Len(hist) = 2
  /\ view = "fallback"

\* C10: loading always ends, and a settled request of the mounted instance
\* leaves the loading flag cleared.
C10_SubmittingEnds ==
  /\ isLoading ~> ~isLoading
  /\ []((lastOp.op \in {"resolve", "reject"} /\ lastOp.live) => ~isLoading)

\* C10 witness: the timer ended a submission.
C10_Witness ==
  /\ Settled("reject")
  /\ lastOp.live
  /\ lastOp.err = TimeoutErr
  /\ ~isLoading
  /\ inflight = {}

\* C11: a pending healthCheck request has a timer armed, as a pending
\* analyzeSwing request has, so it fails after a bounded wait when the
\* server never answers.
C11_ProbeTimerArmed ==
  /\ \A r \in inflight : ENABLED Timeout(r)
  /\ \A r \in Probes : ENABLED Timeout(r)

\* C12: once the user has left the result view by its back button, every
\* object URL that was created has been revoked.
C12_PreviewReleased ==
  Settled("analyzeAnother") => blobs = {}

\* C13: after a reload of /results the payload is gone and the fallback is
\* rendered.
C13_PayloadOneShot ==
  (Settled("reload") /\ path = "/results") => view = "fallback"

Submitted(o) == o \in {"submit", "resubmit"}

\* C14: every request carries a selected file and a hand, the hand is
\* never unset, and a submit with no file selected changes nothing.
C14_RequestWellFormed ==
  /\ [](hand \in Hands)
  /\ [](\A r \in inflight : r.file \in Files /\ r.hand \in Hands)
  /\ [][lastOp'.op = "submitNoFile"
          => /\ file = Null
             /\ UNCHANGED <<file, hand, isLoading, error, inflight, issued,
                            hist, idx, blobs, view, unhandled>>]_vars

\* C14 witness: submit was invoked with no file selected and the page is
\* as it was: no request, no error, not loading.
C14_Witness ==
  /\ Settled("submitNoFile")
  /\ file = Null
  /\ hand = "left"
  /\ inflight = {}
  /\ error = Null
  /\ view = "upload"

Ids(S) == {r.id : r \in S}

\* C15: an accepted submit issues exactly one request; a settling request
\* leaves the pending set, is not sent again and takes one way out: a
\* rejection never navigates or creates an object URL, a 2xx answer stores
\* no error.
C15_OneAttemptOneOutcome ==
  /\ [][Submitted(lastOp'.op)
          => /\ issued' = issued + 1
             /\ Ids(inflight') = Ids(inflight) \cup {issued'}
             /\ issued' \notin Ids(inflight)]_vars
  /\ [][lastOp'.op \in {"resolve", "reject"}
          => /\ issued' = issued
             /\ Ids(inflight') \subseteq Ids(inflight)
             /\ Cardinality(Ids(inflight')) = Cardinality(Ids(inflight)) - 1]_vars
  /\ [][lastOp'.op = "reject"
          => hist' = hist /\ idx' = idx /\ blobs' = blobs]_vars
  /\ [][lastOp'.op = "resolve"
          => hist' # hist /\ error' = Null /\ ~isLoading']_vars
  /\ [](\A r \in inflight : r.id <= issued)

\* C15 witness: the only request made was rejected and nothing is pending.
C15_Witness ==
  /\ Settled("reject")
  /\ lastOp.live
  /\ issued = 1
  /\ inflight = {}
  /\ error = "Network Error"
  /\ ~isLoading

Failed == Mounted /\ ~isLoading /\ error # Null

\* C16: in every Failed state the submit control is on screen and, when
\* the error is visible, so is its dismiss control; with a file selected
\* (and a request left in the model's budget) submit is enabled, and a
\* submit made from a Failed state puts the page in the loading state with
\* its request pending.
C16_FailureNotTerminal ==
  /\ [](Failed => SubmitRendered)
  /\ []((Failed /\ TruthyStr(error)) => ENABLED onRetry)
  /\ []((Failed /\ file # Null /\ issued < MaxReq) => ENABLED Submit)
  /\ [][lastOp'.op = "resubmit"
          => /\ Failed /\ file # Null
             /\ isLoading' /\ view' = "loading"
             /\ \E r \in inflight' : r.live /\ r.id = issued']_vars

\* C16 witness: a submit made from a Failed state is pending.
C16_Witness ==
  /\ Settled("resubmit")
  /\ isLoading
  /\ view = "loading"
  /\ file = "f1.mp4"

\* C17: a selection changes the file or the hand and nothing else, and
\* only a submit adds a request.
C17_SelectFrame ==
  /\ [][lastOp'.op = "select"
          => /\ file' = file \/ hand' = hand
             /\ UNCHANGED <<isLoading, error, inflight, issued, hist, idx,
                            blobs, view, unhandled>>]_vars
  /\ [][(issued' # issued \/ ~(Ids(inflight') \subseteq Ids(inflight)))
          => Submitted(lastOp'.op)]_vars

\* C17 witness: a selection made while an error is shown left the error.
C17_Witness ==
  /\ Settled("select")
  /\ error = "video too short"
  /\ file = "f2.mp4"
  /\ hand = "left"
  /\ inflight = {}

\* A step that pushes a history entry carrying a payload.
HandOff == hist' # hist /\ hist'[idx'].state # NullState

\* C18: a 2xx answer pushes /results with a payload and creates exactly the
\* object URL that payload carries, in one step; no other step creates an
\* object URL or pushes a payload.
C18_HandOffWithPreview ==
  /\ [][lastOp'.op = "resolve"
          => /\ HandOff
             /\ path' = "/results"
             /\ hist'[idx'].state.userVideoUrl \notin blobs
             /\ blobs' = blobs \cup {hist'[idx'].state.userVideoUrl}]_vars
  /\ [][lastOp'.op # "resolve"
          => blobs' \subseteq blobs /\ ~HandOff]_vars

\* C18 witness: the second successful submission of a behaviour made the
\* second object URL.
C18_Witness ==
  /\ Settled("resolve")
  /\ lastOp.live
  /\ Cardinality(blobs) = 2
  /\ locationState.userVideoUrl \in blobs

\* C19: while the page is loading its error is null, and every accepted
\* submit leaves it null.
C19_SubmitClearsError ==
  /\ [](isLoading => error = Null)
  /\ [][Submitted(lastOp'.op) => error' = Null]_vars

\* C19 witness: a submission made after a failure is pending with no
\* error stored.
C19_Witness ==
  /\ Settled("resubmit")
  /\ isLoading
  /\ error = Null
  /\ Cardinality(Live) = 1
====
